---- MODULE Spec2Model ----
(***************************************************************************)
(* kubric/randomness.py: random rotations, the position sampler and the    *)
(* rejection-sampling placement loop (resample_while,                      *)
(* move_until_no_overlap).                                                 *)
(*                                                                         *)
(* Numbers.  A Python float is modelled by an exact fraction <<n, d>> in   *)
(* lowest terms with d >= 0.  d = 0 holds the IEEE-754 values a division   *)
(* by zero produces: <<1, 0>> is +inf, <<-1, 0>> is -inf and <<0, 0>> is   *)
(* NaN.  Rounding is not modelled.  The random draws are taken from small  *)
(* sets in which every square root the code takes is rational.             *)
(***************************************************************************)
EXTENDS Integers, Sequences, FiniteSets, TLC

\* ------------------------------------------------------------------ bounds
\* largest max_trials argument explored
MaxTrials == 3

\* -------------------------------------------------------------- arithmetic
Abs(n) == IF n < 0 THEN 0 - n ELSE n

RECURSIVE GCD(_, _)
GCD(a, b) == IF b = 0 THEN a ELSE GCD(b, a % b)

Sign(n) == IF n > 0 THEN 1 ELSE IF n < 0 THEN 0 - 1 ELSE 0

\* the float n/d (d = 0: +-inf or NaN, as IEEE-754 division gives)
Frac(n, d) ==
  IF d = 0 THEN <<Sign(n), 0>>
  ELSE LET g == GCD(Abs(n), Abs(d))
           s == Sign(d)
       IN  <<(s * n) \div g, (s * d) \div g>>

F(n) == <<n, 1>>
NaN == <<0, 0>>
IsNaN(a) == a = NaN
IsFinite(a) == a[2] # 0

\* a * b  (inf * 0 = NaN falls out of the representation)
FMul(a, b) == Frac(a[1] * b[1], a[2] * b[2])

\* a + b
FAdd(a, b) ==
  IF IsFinite(a) /\ IsFinite(b) THEN Frac(a[1] * b[2] + b[1] * a[2], a[2] * b[2])
  ELSE IF IsNaN(a) \/ IsNaN(b) THEN NaN
  ELSE IF ~IsFinite(a) /\ ~IsFinite(b) THEN (IF a = b THEN a ELSE NaN)
  ELSE IF IsFinite(a) THEN b ELSE a

FNeg(a) == <<0 - a[1], a[2]>>
FSub(a, b) == FAdd(a, FNeg(b))

\* a / b  (x / 0 = +-inf, 0 / 0 = NaN: numpy floats warn and do not raise)
FDiv(a, b) ==
  IF IsNaN(a) \/ IsNaN(b) THEN NaN
  ELSE IF ~IsFinite(a) /\ ~IsFinite(b) THEN NaN
  ELSE IF ~IsFinite(b) THEN F(0)
  ELSE IF b[1] < 0 THEN Frac(0 - (a[1] * b[2]), 0 - (a[2] * b[1]))
  ELSE Frac(a[1] * b[2], a[2] * b[1])

\* a < b, a <= b, a > b on floats: every comparison with NaN is false
FLt(a, b) ==
  IF IsNaN(a) \/ IsNaN(b) THEN FALSE
  ELSE IF IsFinite(a) /\ IsFinite(b) THEN a[1] * b[2] < b[1] * a[2]
  ELSE IF ~IsFinite(a) /\ ~IsFinite(b) THEN a[1] < b[1]
  ELSE IF IsFinite(a) THEN b[1] > 0 ELSE a[1] < 0
FLe(a, b) == ~IsNaN(a) /\ ~IsNaN(b) /\ ~FLt(b, a)
FGt(a, b) == FLt(b, a)

IsSquare(n) == n >= 0 /\ \E r \in 0..n : r * r = n
ISqrt(n) == CHOOSE r \in 0..n : r * r = n

\* np.sqrt: sqrt(+inf) = +inf, sqrt(NaN) = NaN, sqrt(negative) = NaN
Sqrt(a) ==
  IF ~IsFinite(a) THEN (IF a[1] > 0 THEN a ELSE NaN)
  ELSE IF a[1] < 0 THEN NaN
  ELSE Frac(ISqrt(a[1]), ISqrt(a[2]))

\* min / max of a non-empty set of finite floats
FMinOf(S) == CHOOSE m \in S : \A e \in S : FLe(m, e)
FMaxOf(S) == CHOOSE m \in S : \A e \in S : FLe(e, m)
\* ------------------------------------------------- vectors and quaternions
Dot4(q) ==
  FAdd(FAdd(FMul(q[1], q[1]), FMul(q[2], q[2])),
       FAdd(FMul(q[3], q[3]), FMul(q[4], q[4])))

AllFinite(t) == \A i \in DOMAIN t : IsFinite(t[i])

NaNVector == <<NaN, NaN, NaN>>

\* mathutils normalises a quaternion before it rotates with it; the zero
\* quaternion becomes (0, 1, 0, 0).  The rotation matrix of q / |q| has the
\* entries 2*q[i]*q[j] / |q|^2 combined as below, so no square root is
\* needed.  Components are in mathutils' order (w, x, y, z) = q[1..4].
Normalisable(q) == IF Dot4(q) = F(0) THEN <<F(0), F(1), F(0), F(0)>> ELSE q
Products(q, n) ==
  [i \in 1..4 |-> [j \in 1..4 |-> FDiv(FMul(F(2), FMul(q[i], q[j])), n)]]
Diagonal(a, b) == FSub(F(1), FAdd(a, b))
MatrixOf(P) ==
  << <<Diagonal(P[3][3], P[4][4]), FSub(P[2][3], P[1][4]), FAdd(P[2][4], P[1][3])>>,
     <<FAdd(P[2][3], P[1][4]), Diagonal(P[2][2], P[4][4]), FSub(P[3][4], P[1][2])>>,
     <<FSub(P[2][4], P[1][3]), FAdd(P[3][4], P[1][2]), Diagonal(P[2][2], P[3][3])>> >>
RotationMatrix(q) == MatrixOf(Products(Normalisable(q), Dot4(Normalisable(q))))

MatVec(m, v) ==
  [i \in 1..3 |->
     FAdd(FAdd(FMul(m[i][1], v[1]), FMul(m[i][2], v[2])), FMul(m[i][3], v[3]))]

\* for x in bbox_points: x.rotate(obj_orientation)
RotateWith(m, pts) == {MatVec(m, p) : p \in pts}
RotateAll(pts, q) ==
  IF ~AllFinite(q) THEN {NaNVector} ELSE RotateWith(RotationMatrix(q), pts)

\* itertools.product(bounds[:, 0], bounds[:, 1], bounds[:, 2])
BboxPoints(bounds) ==
  {<<bounds[a][1], bounds[b][2], bounds[c][3]>> : a \in 1..2, b \in 1..2, c \in 1..2}

\* bbox_points.min(axis=0) / .max(axis=0): NaN if any entry is NaN
Column(pts, i) == {p[i] : p \in pts}
HasNaN(col) == \E e \in col : IsNaN(e)
MinOrNaN(col) == IF HasNaN(col) THEN NaN ELSE FMinOf(col)
MaxOrNaN(col) == IF HasNaN(col) THEN NaN ELSE FMaxOf(col)
\* faulty variant: the minimum is taken for both rows
BoundsOfMinOnly(pts) ==
  << [i \in 1..3 |-> MinOrNaN(Column(pts, i))],
     [i \in 1..3 |-> MinOrNaN(Column(pts, i))] >>

BoundsOf(pts) ==
  << [i \in 1..3 |-> MinOrNaN(Column(pts, i))],
     [i \in 1..3 |-> MaxOrNaN(Column(pts, i))] >>

\* rotated_bounds of an object with local box `bounds` and orientation q
RotatedBounds(bounds, q) == BoundsOf(RotateAll(BboxPoints(bounds), q))

\* faulty variant: the rotated bounds are added
EffectiveRegionAdded(region, rb) ==
  << [i \in 1..3 |-> FAdd(region[1][i], rb[1][i])],
     [i \in 1..3 |-> FAdd(region[2][i], rb[2][i])] >>

\* effective_region = np.array(region) - rotated_bounds
EffectiveRegion(region, rb) ==
  << [i \in 1..3 |-> FSub(region[1][i], rb[1][i])],
     [i \in 1..3 |-> FSub(region[2][i], rb[2][i])] >>

\* rng.uniform(low, high) for the unit draws U in [0, 1): low + (high-low)*U
UniformValue(er, U) ==
  [i \in 1..3 |-> FAdd(er[1][i], FMul(FSub(er[2][i], er[1][i]), U[i]))]

\* high - low is finite on every axis (else numpy raises OverflowError)
RangeFinite(er) == \A i \in 1..3 : IsFinite(FSub(er[2][i], er[1][i]))
\* high - low >= 0 on every axis
RangeNonNegative(er) == \A i \in 1..3 : FLe(er[1][i], er[2][i])

\* ------------------------------------------------------- random_rotation
\* z = x*x + y*y
SquaredRadius(x, y) == FAdd(FMul(x, x), FMul(y, y))

\* s = np.sqrt((1-z) / w)
ScaleS(z, w) == Sqrt(FDiv(FSub(F(1), z), w))
\* the axis argument: None, a string, or an explicit vector of numbers
NoAxis == [kind |-> "none", str |-> "", vec |-> <<>>]
StrAxis(name) == [kind |-> "str", str |-> name, vec |-> <<>>]
VecAxis(t) == [kind |-> "vec", str |-> "", vec |-> t]

\* the strings tried as axis, and str.upper() on them
AxisStrings == {"X", "x", "Y", "y", "Z", "z", "W", "w", "abc"}
Upper(name) ==
  CASE name = "x" -> "X"
    [] name = "y" -> "Y"
    [] name = "z" -> "Z"
    [] name = "w" -> "W"
    [] name = "abc" -> "ABC"
    [] OTHER -> name
StrLen(name) == IF name = "abc" THEN 3 ELSE 1

\* isinstance(axis, str) and axis.upper() in ["X", "Y", "Z"]
IsNamedAxis(axis) == axis.kind = "str" /\ Upper(axis.str) \in {"X", "Y", "Z"}

\* {"X": (1., 0., 0., 0.), "Y": (0., 1., 0.), "Z": (0., 0., 1.)}[axis.upper()]
AxisTable(name) ==
  CASE name = "X" -> <<F(1), F(0), F(0), F(0)>>
    [] name = "Y" -> <<F(0), F(1), F(0)>>
    [] name = "Z" -> <<F(0), F(0), F(1)>>

\* lines 46-49: a recognised name is replaced by its table entry, anything
\* else is left as it is
MapAxis(axis) ==
  IF IsNamedAxis(axis) THEN VecAxis(AxisTable(Upper(axis.str))) ELSE axis

\* mathutils.Quaternion(axis, angle): the axis must be a sequence of exactly
\* three numbers (else ValueError for a wrong length, TypeError for items that
\* are no numbers); it is normalised (a zero axis gives the identity), and the
\* result is (cos(angle/2), sin(angle/2) * axis) for the angle wrapped into
\* [-pi, pi).  `half` is <<cos, sin>> of half the wrapped angle.
QuaternionError(axis) ==
  IF axis.kind = "vec" THEN (IF Len(axis.vec) = 3 THEN "none" ELSE "ValueError")
  ELSE IF axis.kind = "str" THEN (IF StrLen(axis.str) = 3 THEN "TypeError" ELSE "ValueError")
  ELSE "TypeError"
AxisAngleQuaternion(vec, half) ==
  LET n2 == FAdd(FAdd(FMul(vec[1], vec[1]), FMul(vec[2], vec[2])), FMul(vec[3], vec[3]))
      n  == Sqrt(n2)
  IN  IF n2 = F(0) THEN <<F(1), F(0), F(0), F(0)>>
      ELSE <<half[1], FMul(half[2], FDiv(vec[1], n)),
             FMul(half[2], FDiv(vec[2], n)), FMul(half[2], FDiv(vec[3], n))>>

\* ------------------------------------------------------------ the inputs
\* rng.uniform(size=2): pairs in [0,1)^2.  (4/5, 4/5) and (4/5, 3/4) lie
\* outside the unit disk, (0, 0) has squared radius 0, (3/5, 4/5) has squared
\* radius 1.
UniformPairs ==
  { <<F(0), F(0)>>, <<Frac(4, 5), F(0)>>, <<F(0), Frac(4, 5)>>,
    <<Frac(3, 5), Frac(4, 5)>>, <<Frac(4, 5), Frac(4, 5)>>, <<Frac(4, 5), Frac(3, 4)>> }

\* rng.uniform(0, 2*pi), given as <<cos, sin>> of half the angle after
\* mathutils wraps it into [-pi, pi): the angles 0, 2atan(3/4), pi (wrapped
\* to -pi, so the half angle is -pi/2) and 2pi - 2atan(3/4)
UniformAngles ==
  { <<F(1), F(0)>>, <<Frac(4, 5), Frac(3, 5)>>, <<F(0), F(-1)>>,
    <<Frac(4, 5), Frac(-3, 5)>> }

\* the unit draws behind rng.uniform(low, high), one per axis, each in [0,1)
UniformTriples ==
  { <<F(0), F(0), F(0)>>, <<Frac(1, 2), Frac(1, 2), Frac(1, 2)>>,
    <<Frac(3, 4), F(0), Frac(1, 2)>> }

Cube(lo, hi) == << <<lo, lo, lo>>, <<hi, hi, hi>> >>
\* object bounding boxes: the unit cube centred at the origin, and a box that
\* is neither a cube nor centred
UnitCube == Cube(Frac(-1, 2), Frac(1, 2))
TallBox == << <<Frac(-1, 2), Frac(-1, 4), Frac(-1, 2)>>, <<Frac(1, 2), Frac(1, 4), F(1)>> >>
Boxes == {UnitCube, TallBox}

\* spawn_region=((-1, -1, -1), (1, 1, 1)) and two other regions; the unit
\* cube does not fit into SmallRegion
DefaultRegion == Cube(F(-1), F(1))
OffsetRegion == << <<F(-1), F(0), F(-2)>>, <<F(1), F(2), F(2)>> >>
SmallRegion == Cube(Frac(-1, 4), Frac(1, 4))
Regions == {DefaultRegion, OffsetRegion, SmallRegion}

\* orientations an object may have when the call starts: the identity (the
\* default), a unit quaternion and one that is not normalised
Identity == <<F(1), F(0), F(0), F(0)>>
Orientations == {Identity, <<Frac(4, 5), F(0), Frac(3, 5), F(0)>>, <<F(1), F(1), F(0), F(0)>>}

Origin == <<F(0), F(0), F(0)>>

\* rotation_sampler(axis) and position_sampler(region) return closures over
\* their argument (position_sampler only where np.float exists, see
\* PositionSamplerError)
rotation_sampler(axis) == [kind |-> "rotation", axis |-> axis, region |-> <<>>]
position_sampler(region) == [kind |-> "position", axis |-> NoAxis, region |-> region]

AxisInputs ==
  {NoAxis} \cup {StrAxis(n) : n \in AxisStrings}
    \cup {VecAxis(<<F(0), F(0), F(2)>>), VecAxis(<<F(3), F(4), F(0)>>),
          VecAxis(<<F(0), F(0), F(0)>>)}

SamplerLists ==
  { <<>>, <<rotation_sampler(NoAxis)>>, <<rotation_sampler(StrAxis("Z"))>>,
    <<rotation_sampler(StrAxis("X"))>> }
  \cup {<<position_sampler(r)>> : r \in Regions}
  \cup { <<position_sampler(DefaultRegion), rotation_sampler(NoAxis)>>,
         <<rotation_sampler(StrAxis("y")), position_sampler(OffsetRegion)>> }

\* np_float: whether the numpy of the build still has the alias np.float
\* (numpy 1.24 removed it).  A list of samplers that holds a position sampler
\* can only be built where it has.
NoCall == [op |-> "", axis |-> NoAxis, samplers |-> <<>>, max_trials |-> 0,
           spawn_region |-> DefaultRegion, bounds |-> UnitCube, q0 |-> Identity,
           np_float |-> TRUE]

Calls ==
  {[NoCall EXCEPT !.op = "random_rotation", !.axis = a] : a \in AxisInputs}
  \cup {[NoCall EXCEPT !.op = "resample_while", !.samplers = sl, !.max_trials = m,
                       !.bounds = b, !.q0 = q] :
          sl \in SamplerLists, m \in 0..MaxTrials, b \in Boxes, q \in Orientations}
  \cup {[NoCall EXCEPT !.op = "move_until_no_overlap", !.spawn_region = r,
                       !.max_trials = m, !.bounds = b, !.np_float = f] :
          r \in Regions, m \in 0..MaxTrials, b \in Boxes, f \in BOOLEAN}
  \cup {[NoCall EXCEPT !.op = "position_sampler", !.spawn_region = r, !.np_float = f] :
          r \in Regions, f \in BOOLEAN}
\* ------------------------------------------------------------------ state
VARIABLES
  call,        \* the call under way and its arguments
  pc,          \* where control is
  asset,       \* the object: quaternion, position, bounds
  samplers,    \* resample_while's samplers argument
  max_trials,  \* resample_while's max_trials argument
  trial,       \* the loop variable of `for trial in range(max_trials)`
  sidx,        \* position of `for sampler in samplers` (1-based)
  rr,          \* random_rotation's locals: axis, x, y, z, u, v, w, s
  effective_region,  \* the position sampler's local of that name
  outcome,     \* "running", "return", or the name of the exception raised
  retval,      \* the value random_rotation returned to the caller
  applied,     \* how often each sampler has been called
  condlog,     \* the results of the evaluations of condition, in order
  wrote,       \* the trial (1-based) that last wrote each field, 0: none
  checked,     \* `wrote` as it was at the last evaluation of condition
  drawn        \* the values the samplers computed last: quaternion, position

vars == <<call, pc, asset, samplers, max_trials, trial, sidx, rr, effective_region, outcome,
          retval, applied, condlog, wrote, checked, drawn>>

NoLocals == [axis |-> NoAxis, x |-> F(0), y |-> F(0), z |-> F(0),
             u |-> F(0), v |-> F(0), w |-> F(0), s |-> F(0)]
NoValue == <<>>
NoTrial == [q |-> 0, p |-> 0]

Init ==
  /\ call \in Calls
  /\ pc = "call"
  /\ asset = [quaternion |-> call.q0, position |-> Origin, bounds |-> call.bounds]
  /\ samplers = <<>>
  /\ max_trials = 0
  /\ trial = 0
  /\ sidx = 0
  /\ rr = NoLocals
  /\ effective_region = NoValue
  /\ outcome = "running"
  /\ retval = NoValue
  /\ applied = <<>>
  /\ condlog = <<>>
  /\ wrote = NoTrial
  /\ checked = NoTrial
  /\ drawn = [quaternion |-> call.q0, position |-> Origin]

\* an exception leaves every frame: the call ends with it
Raise(name) ==
  /\ outcome' = name
  /\ pc' = "done"
  /\ rr' = NoLocals
  /\ effective_region' = NoValue

\* ------------------------------------------------------------ entry points
\* a direct call random_rotation(axis, rng)
CallRandomRotation ==
  /\ pc = "call" /\ call.op = "random_rotation"
  /\ rr' = [NoLocals EXCEPT !.axis = call.axis]
  /\ pc' = "random_rotation"
  /\ UNCHANGED <<call, effective_region, asset, samplers, max_trials, trial, sidx, outcome,
                 retval, applied, condlog, wrote, checked, drawn>>

\* a direct call resample_while(asset, samplers, condition, max_trials, rng)
CallResampleWhile ==
  /\ pc = "call" /\ call.op = "resample_while"
  /\ samplers' = call.samplers
  /\ max_trials' = call.max_trials
  /\ applied' = [i \in 1..Len(call.samplers) |-> 0]
  /\ trial' = 0
  /\ pc' = "for_trial"
  /\ UNCHANGED <<call, asset, sidx, rr, effective_region, outcome, retval, condlog, wrote, checked, drawn>>

\* faulty variant: the position sampler comes first
MoveSamplersSwapped(spawn_region) ==
  <<position_sampler(spawn_region), rotation_sampler(NoAxis)>>

\* samplers=[rotation_sampler(), position_sampler(spawn_region)]
MoveSamplers(spawn_region) == <<rotation_sampler(NoAxis), position_sampler(spawn_region)>>

\* `region = np.array(region, dtype=np.float)`: evaluating np.float raises
\* AttributeError in a build whose numpy has no such alias
PositionSamplerError(np_float) == IF np_float THEN "none" ELSE "AttributeError"

\* a direct call position_sampler(region): it returns the closure, or raises
CallPositionSampler ==
  /\ pc = "call" /\ call.op = "position_sampler"
  /\ IF PositionSamplerError(call.np_float) = "none"
       THEN /\ retval' = <<position_sampler(call.spawn_region)>>
            /\ outcome' = "return"
            /\ pc' = "done"
            /\ UNCHANGED <<rr, effective_region>>
       ELSE /\ Raise(PositionSamplerError(call.np_float))
            /\ retval' = retval
  /\ UNCHANGED <<call, asset, samplers, max_trials, trial, sidx, applied, condlog,
                 wrote, checked, drawn>>

\* move_until_no_overlap(asset, simulator, spawn_region, max_trials, rng):
\* the samplers are built and resample_while is called
move_until_no_overlap ==
  /\ pc = "call" /\ call.op = "move_until_no_overlap"
  /\ PositionSamplerError(call.np_float) = "none"
  /\ samplers' = MoveSamplers(call.spawn_region)
  /\ max_trials' = call.max_trials
  /\ applied' = <<0, 0>>
  /\ trial' = 0
  /\ pc' = "for_trial"
  /\ UNCHANGED <<call, asset, sidx, rr, effective_region, outcome, retval, condlog,
                 wrote, checked, drawn>>

\* move_until_no_overlap where position_sampler(spawn_region) raises: the
\* exception leaves move_until_no_overlap before resample_while is called
MoveUntilNoOverlapRaise ==
  /\ pc = "call" /\ call.op = "move_until_no_overlap"
  /\ PositionSamplerError(call.np_float) # "none"
  /\ Raise(PositionSamplerError(call.np_float))
  /\ UNCHANGED <<call, asset, samplers, max_trials, trial, sidx, retval, applied,
                 condlog, wrote, checked, drawn>>

\* faulty variant: the range is one too long
InRangeInclusive(t, n) == 0 <= t /\ t <= n

\* trial in range(max_trials)
InRange(t, n) == 0 <= t /\ t < n

\* `for trial in range(max_trials):` takes the next trial
ForTrial ==
  /\ pc = "for_trial" /\ InRange(trial, max_trials)
  /\ sidx' = 1
  /\ pc' = "for_sampler"
  /\ UNCHANGED <<call, asset, samplers, max_trials, trial, rr, effective_region, outcome,
                 retval, applied, condlog, wrote, checked, drawn>>

\* the range is used up: `else: raise RuntimeError("Failed to place", asset)`
ForElseRaise ==
  /\ pc = "for_trial" /\ ~InRange(trial, max_trials)
  /\ Raise("RuntimeError")
  /\ UNCHANGED <<call, asset, samplers, max_trials, trial, sidx, retval,
                 applied, condlog, wrote, checked, drawn>>

\* sampler(asset, rng) for a rotation sampler: it calls random_rotation
RotationSamplerCall ==
  /\ pc = "for_sampler" /\ sidx <= Len(samplers)
  /\ samplers[sidx].kind = "rotation"
  /\ applied' = [applied EXCEPT ![sidx] = @ + 1]
  /\ rr' = [NoLocals EXCEPT !.axis = samplers[sidx].axis]
  /\ pc' = "random_rotation"
  /\ UNCHANGED <<call, effective_region, asset, samplers, max_trials, trial, sidx, outcome,
                 retval, condlog, wrote, checked, drawn>>

\* the effective region of the position sampler at samplers[sidx]
SamplerRegion ==
  EffectiveRegion(samplers[sidx].region, RotatedBounds(asset.bounds, asset.quaternion))

\* what rng.uniform(*effective_region) does with the effective region er:
\* "OverflowError" when high - low is not finite (a NaN orientation),
\* "undefined" when high < low on some axis, else "value"
UniformCase(er) ==
  IF ~RangeFinite(er) THEN "OverflowError"
  ELSE IF ~RangeNonNegative(er) THEN "undefined"
  ELSE "value"

\* sampler(asset, rng) for a position sampler, lines 66-75: the bounding
\* box is rotated and the effective region computed
PositionSamplerCall ==
  /\ pc = "for_sampler" /\ sidx <= Len(samplers)
  /\ samplers[sidx].kind = "position"
  /\ applied' = [applied EXCEPT ![sidx] = @ + 1]
  /\ effective_region' = SamplerRegion
  /\ pc' = "uniform"
  /\ UNCHANGED <<call, asset, samplers, max_trials, trial, sidx, rr, outcome,
                 retval, condlog, wrote, checked, drawn>>

\* `obj.position = rng.uniform(*effective_region)` when rng.uniform returns;
\* the sampler returns.  With high < low on some axis numpy documents the
\* result as undefined: older versions return low + (high-low)*U, newer ones
\* raise ValueError (PositionSamplerRaise).
PositionSamplerWrite ==
  /\ pc = "uniform"
  /\ UniformCase(effective_region) # "OverflowError"
  /\ \E U \in UniformTriples :
       /\ drawn' = [drawn EXCEPT !.position = UniformValue(effective_region, U)]
       /\ asset' = [asset EXCEPT !.position = UniformValue(effective_region, U)]
  /\ wrote' = [wrote EXCEPT !.p = trial + 1]
  /\ sidx' = sidx + 1
  /\ effective_region' = NoValue
  /\ pc' = "for_sampler"
  /\ UNCHANGED <<call, samplers, max_trials, trial, rr, outcome, retval,
                 applied, condlog, checked>>

\* rng.uniform raises
PositionSamplerRaise ==
  /\ pc = "uniform"
  /\ UniformCase(effective_region) # "value"
  /\ Raise(IF UniformCase(effective_region) = "undefined"
             THEN "ValueError" ELSE "OverflowError")
  /\ UNCHANGED <<call, asset, samplers, max_trials, trial, sidx, retval, applied,
                 condlog, wrote, checked, drawn>>

\* faulty variant: the test is inverted
AcceptedInverted(c) == c

\* `if not condition(asset):` with c the condition's answer
Accepted(c) == ~c

\* every sampler has run: `if not condition(asset): return`; the condition is
\* the caller's (simulator.check_overlap for move_until_no_overlap) and may
\* answer either way
Condition ==
  /\ pc = "for_sampler" /\ sidx > Len(samplers)
  /\ \E c \in BOOLEAN :
       /\ condlog' = Append(condlog, c)
       /\ IF Accepted(c)
            THEN /\ trial' = trial
                 /\ pc' = "done"
                 /\ outcome' = "return"
            ELSE /\ trial' = trial + 1
                 /\ pc' = "for_trial"
                 /\ outcome' = outcome
  /\ checked' = wrote
  /\ UNCHANGED <<call, asset, samplers, max_trials, sidx, rr, effective_region, retval,
                 applied, wrote, drawn>>

\* -------------------------------------------------------- random_rotation
\* `if axis is None:` ... `z = 2`
RandomRotationUniform ==
  /\ pc = "random_rotation" /\ rr.axis.kind = "none"
  /\ rr' = [rr EXCEPT !.z = F(2)]
  /\ pc' = "while_z"
  /\ UNCHANGED <<call, effective_region, asset, samplers, max_trials, trial, sidx, outcome,
                 retval, applied, condlog, wrote, checked, drawn>>

\* `while z > 1: x, y = rng.uniform(size=2); z = x*x + y*y`; leaving the
\* loop sets w = 2
WhileZ ==
  /\ pc = "while_z"
  /\ IF FGt(rr.z, F(1))
       THEN /\ \E d \in UniformPairs :
                 rr' = [rr EXCEPT !.x = d[1], !.y = d[2], !.z = SquaredRadius(d[1], d[2])]
                      /\ pc' = pc
       ELSE /\ rr' = [rr EXCEPT !.w = F(2)]
            /\ pc' = "while_w"
  /\ UNCHANGED <<call, effective_region, asset, samplers, max_trials, trial, sidx, outcome, retval,
                 applied, condlog, wrote, checked, drawn>>

\* `while w > 1: u, v = rng.uniform(size=2); w = u*u + v*v`; leaving the
\* loop computes s
WhileW ==
  /\ pc = "while_w"
  /\ IF FGt(rr.w, F(1))
       THEN /\ \E d \in UniformPairs :
                 rr' = [rr EXCEPT !.u = d[1], !.v = d[2], !.w = SquaredRadius(d[1], d[2])]
                      /\ pc' = pc
       ELSE /\ rr' = [rr EXCEPT !.s = ScaleS(rr.z, rr.w)]
            /\ pc' = "return_uniform"
  /\ UNCHANGED <<call, effective_region, asset, samplers, max_trials, trial, sidx, outcome, retval,
                 applied, condlog, wrote, checked, drawn>>

\* faulty variant: the sampler drops the quaternion it computed
KeepQuaternion(obj, q) == obj

\* obj.quaternion = random_rotation(axis=axis, rng=rng)
SetQuaternion(obj, q) == [obj EXCEPT !.quaternion = q]

\* random_rotation returns q: to the caller of a direct call, or to the
\* rotation sampler, which stores it (obj.quaternion = ...) and returns
ReturnQuaternion(q) ==
  /\ rr' = NoLocals
  /\ effective_region' = NoValue
  /\ IF call.op = "random_rotation"
       THEN /\ retval' = q
            /\ outcome' = "return"
            /\ pc' = "done"
            /\ UNCHANGED <<asset, wrote, sidx, drawn>>
       ELSE /\ drawn' = [drawn EXCEPT !.quaternion = q]
            /\ asset' = SetQuaternion(asset, q)
            /\ wrote' = [wrote EXCEPT !.q = trial + 1]
            /\ sidx' = sidx + 1
            /\ pc' = "for_sampler"
            /\ UNCHANGED <<retval, outcome>>

\* `return x, y, s*u, s*v`
ReturnUniform ==
  /\ pc = "return_uniform"
  /\ ReturnQuaternion(<<rr.x, rr.y, FMul(rr.s, rr.u), FMul(rr.s, rr.v)>>)
  /\ UNCHANGED <<call, samplers, max_trials, trial, applied, condlog, checked>>

\* `else:` the axis is given; a recognised name is looked up in the table
RandomRotationAxis ==
  /\ pc = "random_rotation" /\ rr.axis.kind # "none"
  /\ rr' = [rr EXCEPT !.axis = MapAxis(rr.axis)]
  /\ pc' = "quaternion"
  /\ UNCHANGED <<call, effective_region, asset, samplers, max_trials, trial, sidx, outcome,
                 retval, applied, condlog, wrote, checked, drawn>>

\* `quat = mathutils.Quaternion(axis, rng.uniform(0, 2*np.pi))` succeeds;
\* `return tuple(quat)`
AxisQuaternion ==
  /\ pc = "quaternion" /\ QuaternionError(rr.axis) = "none"
  /\ \E half \in UniformAngles :
       ReturnQuaternion(AxisAngleQuaternion(rr.axis.vec, half))
  /\ UNCHANGED <<call, samplers, max_trials, trial, applied, condlog, checked>>

\* mathutils.Quaternion rejects the axis; the exception propagates
AxisQuaternionRaise ==
  /\ pc = "quaternion" /\ QuaternionError(rr.axis) # "none"
  /\ Raise(QuaternionError(rr.axis))
  /\ UNCHANGED <<call, asset, samplers, max_trials, trial, sidx, retval, applied,
                 condlog, wrote, checked, drawn>>

Next ==
  \/ CallRandomRotation
  \/ CallPositionSampler
  \/ CallResampleWhile
  \/ move_until_no_overlap
  \/ MoveUntilNoOverlapRaise
  \/ ForTrial
  \/ ForElseRaise
  \/ RotationSamplerCall
  \/ PositionSamplerCall
  \/ PositionSamplerWrite
  \/ PositionSamplerRaise
  \/ Condition
  \/ RandomRotationUniform
  \/ WhileZ
  \/ WhileW
  \/ ReturnUniform
  \/ RandomRotationAxis
  \/ AxisQuaternion
  \/ AxisQuaternionRaise

Spec == Init /\ [][Next]_vars
\* the calls of move_until_no_overlap alone; the program runs on while it can
\* take a step
InitMove == Init /\ call.op = "move_until_no_overlap"
NextMove ==
  \/ move_until_no_overlap
  \/ MoveUntilNoOverlapRaise
  \/ ForTrial
  \/ ForElseRaise
  \/ RotationSamplerCall
  \/ PositionSamplerCall
  \/ PositionSamplerWrite
  \/ PositionSamplerRaise
  \/ Condition
  \/ RandomRotationUniform
  \/ WhileZ
  \/ WhileW
  \/ ReturnUniform
LiveSpec == InitMove /\ [][NextMove]_vars /\ WF_vars(NextMove)

\* ------------------------------------------------------------- properties
LoopCall == call.op \in {"resample_while", "move_until_no_overlap"}
HasKind(k) == \E i \in DOMAIN samplers : samplers[i].kind = k
AllTrue(log) == \A i \in DOMAIN log : log[i]
\* every sampler of the trial has run and the condition is evaluated next
AtCondition == pc = "for_sampler" /\ sidx > Len(samplers)
\* the sampler that has just run is a position sampler and it wrote
JustPositioned ==
  /\ pc = "for_sampler" /\ sidx > 1 /\ sidx - 1 <= Len(samplers)
  /\ samplers[sidx - 1].kind = "position"
  /\ wrote.p = trial + 1
\* the 8 rotated corners of the asset's bounding box
RotatedCorners == RotateAll(BboxPoints(asset.bounds), asset.quaternion)
\* with the origin at p, all rotated corners lie in the region
CornersInside(region, corners, p) ==
  \A c \in corners : \A i \in 1..3 :
     /\ FLe(region[1][i], FAdd(p[i], c[i]))
     /\ FLe(FAdd(p[i], c[i]), region[2][i])
\* on every axis the rotated box is no wider than the region
BoxFits(region, corners) ==
  \A i \in 1..3 : \A c \in corners, d \in corners :
     FLe(FSub(c[i], d[i]), FSub(region[2][i], region[1][i]))
\* p is one of the values rng.uniform(*er) can return
DrawnFrom(er, p) == \E U \in UniformTriples : p = UniformValue(er, U)

\* C1: when the loop itself ends the call and every evaluation of the
\* condition was true, the call raised the placement error after exactly
\* max_trials applications of each sampler and max_trials evaluations of the
\* condition (none at all for max_trials = 0); no sampler and no condition is
\* ever run more than max_trials times.
C1_ExhaustedAfterMaxTrials ==
  /\ (LoopCall /\ pc = "done" /\ outcome \in {"return", "RuntimeError"} /\ AllTrue(condlog))
       => /\ outcome = "RuntimeError"
          /\ Len(condlog) = max_trials
          /\ \A i \in DOMAIN applied : applied[i] = max_trials
  /\ (LoopCall /\ pc # "call")
       => /\ Len(condlog) <= max_trials
          /\ \A i \in DOMAIN applied : applied[i] <= max_trials
C1_Witness ==
  /\ call.op = "resample_while" /\ pc = "done" /\ outcome = "RuntimeError"
  /\ max_trials = 2 /\ applied = <<2, 2>> /\ condlog = <<TRUE, TRUE>>

\* C2: as soon as the condition answers false, on trial k after k-1 answers
\* true, the call has returned normally with each sampler applied exactly k
\* times and the asset holding what the samplers of trial k wrote; and the
\* call returns normally in no other way.
C2_ReturnsOnFirstFalse ==
  /\ (LoopCall /\ condlog # <<>> /\ ~condlog[Len(condlog)])
       => /\ pc = "done" /\ outcome = "return"
          /\ Len(condlog) <= max_trials
          /\ \A i \in 1..(Len(condlog) - 1) : condlog[i]
          /\ \A i \in DOMAIN applied : applied[i] = Len(condlog)
          /\ HasKind("rotation")
               => wrote.q = Len(condlog) /\ asset.quaternion = drawn.quaternion
          /\ HasKind("position")
               => wrote.p = Len(condlog) /\ asset.position = drawn.position
  /\ (LoopCall /\ outcome = "return") => (condlog # <<>> /\ ~condlog[Len(condlog)])
C2_Witness ==
  /\ LoopCall /\ pc = "done" /\ outcome = "return"
  /\ condlog = <<TRUE, TRUE, FALSE>> /\ wrote = [q |-> 3, p |-> 3]
  /\ applied = <<3, 3>>

\* C3 (as claimed): every call of the sampling loop eventually finishes, by
\* returning or by raising the placement error, after at most max_trials
\* trials.  Stated for the builds in which the samplers can be constructed
\* (np.float exists); elsewhere move_until_no_overlap ends at once with
\* AttributeError.
C3_LoopTerminates ==
  (LoopCall /\ call.np_float) =>
    <>(pc = "done" /\ outcome \in {"return", "RuntimeError"} /\ Len(condlog) <= max_trials)

\* C4 (as claimed): every position the position sampler writes keeps all 8
\* rotated corners of the bounding box inside the region, for every region,
\* box and orientation.
C4_BoxStaysInRegion ==
  JustPositioned
    => CornersInside(samplers[sidx - 1].region, RotatedCorners, asset.position)
\* C4 (amended): the same, for every region, box and orientation for which
\* the rotated bounding box is no wider than the region on any axis.
C4_BoxStaysInRegionIfItFits ==
  (JustPositioned /\ BoxFits(samplers[sidx - 1].region, RotatedCorners))
    => CornersInside(samplers[sidx - 1].region, RotatedCorners, asset.position)
C4_Witness ==
  /\ JustPositioned
  /\ asset.bounds = TallBox /\ samplers[sidx - 1].region = OffsetRegion
  /\ asset.quaternion = <<Frac(4, 5), F(0), Frac(3, 5), F(0)>>
  /\ BoxFits(OffsetRegion, RotatedCorners)
  /\ asset.position # Origin

\* C5: for the unit cube centred at the origin, the identity rotation and the
\* region ((-1,-1,-1),(1,1,1)) the effective region is exactly
\* ((-1/2,-1/2,-1/2),(1/2,1/2,1/2)) and every position written lies in it.
C5_UnitCubeEffectiveRegion ==
  (/\ JustPositioned
   /\ asset.bounds = UnitCube /\ asset.quaternion = Identity
   /\ samplers[sidx - 1].region = DefaultRegion)
    => /\ EffectiveRegion(DefaultRegion, RotatedBounds(asset.bounds, asset.quaternion))
            = Cube(Frac(-1, 2), Frac(1, 2))
       /\ \A i \in 1..3 : /\ FLe(Frac(-1, 2), asset.position[i])
                          /\ FLe(asset.position[i], Frac(1, 2))
C5_Witness ==
  /\ JustPositioned
  /\ asset.bounds = UnitCube /\ asset.quaternion = Identity
  /\ samplers[sidx - 1].region = DefaultRegion
  /\ asset.position = <<Frac(1, 4), Frac(-1, 2), F(0)>>

BasisVector(name) ==
  CASE name = "X" -> <<F(1), F(0), F(0)>>
    [] name = "Y" -> <<F(0), F(1), F(0)>>
    [] name = "Z" -> <<F(0), F(0), F(1)>>
\* C6 (as claimed): for the axis names X, Y, Z in either case the axis handed
\* to the quaternion construction is the 3-component unit basis vector, and
\* the call returns a rotation about it.
C6_NamedAxisIsBasisVector ==
  (call.op = "random_rotation" /\ IsNamedAxis(call.axis))
    => /\ pc = "quaternion" => rr.axis = VecAxis(BasisVector(Upper(call.axis.str)))
       /\ pc = "done"
            => /\ outcome = "return"
               /\ \E k \in {F(0), F(-1), Frac(3, 5), Frac(-3, 5)} :
                    <<retval[2], retval[3], retval[4]>>
                      = [i \in 1..3 |-> FMul(k, BasisVector(Upper(call.axis.str))[i])]

\* C7 (as claimed): a string other than the three names makes random_rotation
\* fail with InvalidAxis, and the string never reaches the quaternion
\* construction.
C7_UnknownAxisIsInvalid ==
  (call.op = "random_rotation" /\ call.axis.kind = "str" /\ ~IsNamedAxis(call.axis))
    => /\ pc = "quaternion" => rr.axis.kind # "str"
       /\ pc = "done" => outcome = "InvalidAxis"

\* C8 (as claimed): every axis-free call returns, for all accepted draws and
\* also for w = 0, a quaternion of finite components with squared norm 1.
C8_UniformQuaternionIsUnit ==
  (call.op = "random_rotation" /\ call.axis.kind = "none" /\ pc = "done")
    => /\ outcome = "return"
       /\ AllFinite(retval)
       /\ Dot4(retval) = F(1)

\* C9: in move_until_no_overlap the rotation sampler of a trial runs before
\* its position sampler and check_overlap only after both; the position of a
\* trial is drawn from the effective region of the orientation written in the
\* same trial; and a normal return follows a check_overlap that was made on
\* the final orientation and position and answered false.
C9_RotationThenPositionThenCheck ==
  call.op = "move_until_no_overlap"
    => /\ wrote.p <= wrote.q /\ wrote.q <= wrote.p + 1
       /\ pc # "call" => \A i \in DOMAIN applied : Len(condlog) <= applied[i]
       /\ AtCondition
            => /\ wrote = [q |-> trial + 1, p |-> trial + 1]
               /\ applied = <<trial + 1, trial + 1>>
       /\ (wrote.p > 0 /\ wrote.p = wrote.q)
            => DrawnFrom(EffectiveRegion(call.spawn_region,
                                         RotatedBounds(asset.bounds, asset.quaternion)),
                         asset.position)
       /\ outcome = "return"
            => /\ checked = wrote
               /\ condlog # <<>> /\ ~condlog[Len(condlog)]
C9_Witness ==
  /\ call.op = "move_until_no_overlap" /\ pc = "done" /\ outcome = "return"
  /\ condlog = <<TRUE, FALSE>> /\ checked = [q |-> 2, p |-> 2]
  /\ asset.bounds = TallBox
  /\ asset.quaternion = <<Frac(4, 5), F(0), Frac(3, 5), F(0)>>

\* C10: the asset is never rolled back: a field a sampler has written holds
\* the value computed last for it, between trials it holds what the samplers
\* of the last completed trial wrote, and when the call fails with the
\* placement error for max_trials >= 1 it holds what trial max_trials wrote.
C10_NoRollback ==
  LoopCall
    => /\ wrote.q > 0 => asset.quaternion = drawn.quaternion
       /\ wrote.p > 0 => asset.position = drawn.position
       /\ pc = "for_trial"
            => /\ HasKind("rotation") => wrote.q = trial
               /\ HasKind("position") => wrote.p = trial
       /\ (pc = "done" /\ outcome = "RuntimeError" /\ max_trials >= 1)
            => /\ HasKind("rotation") => wrote.q = max_trials
               /\ HasKind("position") => wrote.p = max_trials
C10_Witness ==
  /\ LoopCall /\ pc = "done" /\ outcome = "RuntimeError"
  /\ max_trials = 3 /\ wrote = [q |-> 3, p |-> 3]
  /\ asset.quaternion # call.q0 /\ asset.position # Origin
====
